---- MODULE Spec2Model ----
(***************************************************************************)
(* State-machine model of sagemaker_scripts/train_resnet.py: the main      *)
(* script (loader construction, model and optimizer construction, train(), *)
(* test(), the two-file save path) and model_fn (the load path).           *)
(*                                                                         *)
(* Numbers: learning rates are counted in units of 0.001; model parameters,*)
(* scores and losses are abstract integers modulo ParamMod; an average or  *)
(* a percentage is kept as the fraction [num, den] the code divides.       *)
(***************************************************************************)
EXTENDS Integers, Sequences, FiniteSets, TLC

\* ---- bounds of the model ------------------------------------------------
MaxTrain == 3     \* training-set sizes 1..MaxTrain
MaxValid == 2     \* validation-set sizes 1..MaxValid
MaxBatch == 2     \* --batch-size in 1..MaxBatch
MaxEpochs == 2    \* --epochs in 0..MaxEpochs
MaxShift == 0     \* the sampler's permutations: shifts 0..MaxShift, both directions
ParamMod == 5     \* parameters, scores and losses are integers modulo ParamMod

\* ---- program constants --------------------------------------------------
LogInterval == 20        \* if batch_idx % 20 == 0
LrDefault == 1           \* --lr default=0.001, in units of 0.001
SgdLr == 1               \* optim.SGD(..., lr=0.001), in units of 0.001
OutputDimDefault == 3    \* --output_dim default=3

VARIABLES
    args,          \* parsed command line: batch_size, epochs, lr, output_dim
    data_dir,      \* the training directory on disk: [exists, n]
    valid_dir,     \* the validation directory on disk: [exists, n]
    fs,            \* the model directory: [info, params], the two artifact files
    pc,            \* position of the main script
    error,         \* the error that aborted the main script, "" when none
    model,         \* the Resnet instance of the main script
    grad,          \* the .grad accumulators of the model parameters
    optimizer,     \* the optim.SGD instance
    twin,          \* the same run under a configuration that differs only in --lr
    train_loader,  \* DataLoader over the training set
    test_loader,   \* DataLoader over the validation set
    loop,          \* locals of train()
    tst,           \* locals of test()
    logs,          \* progress lines emitted by train()
    summary,       \* summary lines emitted by test()
    hist,          \* history of the run: counters the properties read
    ld             \* the model_fn call of the inference side

vars == <<args, data_dir, valid_dir, fs, pc, error, model, grad, optimizer, twin,
          train_loader, test_loader, loop, tst, logs, summary, hist, ld>>

\* ---- helpers ------------------------------------------------------------
Min(a, b) == IF a < b THEN a ELSE b

RECURSIVE SumSeq(_)
SumSeq(s) == IF s = <<>> THEN 0 ELSE Head(s) + SumSeq(Tail(s))

CeilDiv(n, b) == (n + b - 1) \div b

\* ---- the two directories and the command line ----------------------------
MissingDir == [exists |-> FALSE, n |-> 0]
Dir(n) == [exists |-> TRUE, n |-> n]

LrValues == {LrDefault, LrDefault + 1}
OutputDims == {OutputDimDefault, OutputDimDefault + 2}

\* Sizes at which batch index LogInterval exists: as a smaller final batch
\* (r < b) and as a full one (r = b).
LongSizes(b) == {LogInterval * b + r : r \in 1..b}

\* ---- artifact files -------------------------------------------------------
AbsentFile == [st |-> "absent", output_dim |-> 0, params |-> 0]
TruncatedFile == [st |-> "empty", output_dim |-> 0, params |-> 0]
InfoFile(d) == [st |-> "written", output_dim |-> d, params |-> 0]
ParamsFile(d, p) == [st |-> "written", output_dim |-> d, params |-> p]

EmptyModelDir == [info |-> AbsentFile, params |-> AbsentFile]
EarlierRunDir(d) == [info |-> InfoFile(d), params |-> ParamsFile(d, 0)]

\* ---- the classifier, the loss, the optimizer -----------------------------
NoModel == [built |-> FALSE, output_dim |-> 0, params |-> 0, training |-> FALSE]

\* Resnet(output_dim): a fresh module is in training mode; the seed fixes its
\* initial parameters.
Resnet(output_dim) ==
    [built |-> TRUE, output_dim |-> output_dim, params |-> 0, training |-> TRUE]

\* model(batch_x): the scores depend on the parameters and on the batch.
Forward(params, data) == (params + SumSeq(data)) % ParamMod

\* The label of sample s: ImageFolder lists the images class folder by class
\* folder (two images per folder here); a label is a class index below d.
Target(s, d) == ((s - 1) \div 2) % d
Targets(data, d) == [i \in 1..Len(data) |-> Target(data[i], d)]

\* criterion(output, target): cross entropy, never negative.
Criterion(y_pred, batch_y) == (y_pred + SumSeq(batch_y)) % ParamMod

NoOptimizer == [built |-> FALSE, lr |-> 0]

OptimSGD_fromArgs(a) == [built |-> TRUE, lr |-> a.lr]

\* optim.SGD(model.parameters(), lr=0.001)
OptimSGD(a) == [built |-> TRUE, lr |-> SgdLr]

\* optimizer.step(): p <- p - lr * p.grad
SgdStep(params, g, lr) == (params + (ParamMod - 1) * lr * g) % ParamMod

\* ---- data loaders ----------------------------------------------------------
ImageFolder_missingOnly(dir) == [ok |-> dir.exists, n |-> dir.n]

\* datasets.ImageFolder(dir): raises when the directory is missing or holds
\* no image.
ImageFolder(dir) == [ok |-> dir.exists /\ dir.n > 0, n |-> dir.n]

NoLoader == [built |-> FALSE, n |-> 0, batch_size |-> 0]

\* torch.utils.data.DataLoader(dataset, batch_size, shuffle=True)
DataLoader(n, batch_size) == [built |-> TRUE, n |-> n, batch_size |-> batch_size]

\* len(loader)
NumBatches(loader) == CeilDiv(loader.n, loader.batch_size)

\* One permutation of the samples 1..n.
Perm(n, k, fwd) ==
    [i \in 1..n |-> ((k + (IF fwd THEN i - 1 ELSE n - i)) % n) + 1]

\* shuffle=True: each iter(loader) draws a fresh permutation.
Shuffles(n) == {Perm(n, k, fwd) : k \in 0..Min(n - 1, MaxShift), fwd \in BOOLEAN}

HasNext_dropLast(order, pos, b) == pos + b <= Len(order)

\* The iterator has another batch while samples are left.
HasNext(order, pos, b) == pos < Len(order)

\* The next batch: up to b samples, fewer at the end.
NextBatch(order, pos, b) == SubSeq(order, pos + 1, Min(pos + b, Len(order)))

EqCount_broadcast(pred, target) ==
    Cardinality({<<i, j>> \in (1..Len(pred)) \X (1..Len(target)) : pred[i] = target[j]})

\* pred.eq(target.view_as(pred)).sum().item()
EqCount(pred, target) == Cardinality({i \in 1..Len(pred) : pred[i] = target[i]})

\* ---- initial states --------------------------------------------------------
NoLoop == [epoch |-> 0, count |-> 0, batch_idx |-> 0, order |-> <<>>, pos |-> 0,
           data |-> <<>>, y_pred |-> 0, loss |-> 0, total_loss |-> 0]
NoTest == [test_loss |-> 0, correct |-> 0, order |-> <<>>, pos |-> 0,
           scored |-> <<>>, no_grad |-> FALSE]
NoHist == [gradSteps |-> 0, epochSteps |-> 0, consumed |-> <<>>, evalPasses |-> 0,
           ops |-> <<>>, stepFrom |-> <<>>, written |-> {}, fs0 |-> EmptyModelDir]
NoLoad == [pc |-> "idle", info |-> AbsentFile, model |-> NoModel, ops |-> <<>>,
           error |-> ""]

ShortDirs(b) == {MissingDir, Dir(0)} \cup {Dir(n) : n \in 1..MaxTrain}
LongDirs(b) == {MissingDir} \cup {Dir(n) : n \in LongSizes(b)}

InitWith(long) ==
    /\ args \in {[batch_size |-> b, epochs |-> e, lr |-> l, output_dim |-> d] :
                   b \in 1..MaxBatch, e \in 0..MaxEpochs, l \in LrValues, d \in OutputDims}
    /\ data_dir \in (IF long THEN LongDirs(args.batch_size) ELSE ShortDirs(args.batch_size))
    /\ valid_dir \in {MissingDir, Dir(0)} \cup {Dir(n) : n \in 1..MaxValid}
    /\ fs \in {EmptyModelDir} \cup {EarlierRunDir(d) : d \in OutputDims}
    /\ pc = "get_loaders"
    /\ error = ""
    /\ model = NoModel
    /\ grad = [val |-> 0, from |-> <<>>]
    /\ optimizer = NoOptimizer
    /\ \E l \in LrValues \ {args.lr} :
          twin = [lr |-> l, optimizer |-> NoOptimizer, params |-> 0, grad |-> 0,
                  y_pred |-> 0, loss |-> 0]
    /\ train_loader = NoLoader
    /\ test_loader = NoLoader
    /\ loop = NoLoop
    /\ tst = NoTest
    /\ logs = {}
    /\ summary = <<>>
    /\ hist = [NoHist EXCEPT !.fs0 = fs]
    /\ ld = NoLoad

Init == InitWith(FALSE)

\* The same program started on training sets long enough to reach batch
\* index LogInterval.
InitLong == InitWith(TRUE)

\* ---- the main script, up to train() -----------------------------------------
\* train_loader, test_loader = _get_train_data_loader(batch_size, data_dir, valid_dir)
Main_GetLoaders ==
    /\ pc = "get_loaders"
    /\ LET train_data == ImageFolder(data_dir)
           test_data == ImageFolder(valid_dir)
       IN IF train_data.ok /\ test_data.ok
          THEN /\ train_loader' = DataLoader(train_data.n, args.batch_size)
               /\ test_loader' = DataLoader(test_data.n, args.batch_size)
               /\ pc' = "construct_model"
               /\ error' = error
          ELSE /\ pc' = "failed"
               /\ error' = "dataset"
               /\ UNCHANGED <<train_loader, test_loader>>
    /\ UNCHANGED <<args, data_dir, valid_dir, fs, model, grad, optimizer, twin,
                   loop, tst, logs, summary, hist, ld>>

\* model = Resnet(args.output_dim).to(device)
Main_ConstructModel ==
    /\ pc = "construct_model"
    /\ model' = Resnet(args.output_dim)
    /\ twin' = [twin EXCEPT !.params = Resnet(args.output_dim).params]
    /\ pc' = "construct_optimizer"
    /\ UNCHANGED <<args, data_dir, valid_dir, fs, error, grad, optimizer,
                   train_loader, test_loader, loop, tst, logs, summary, hist, ld>>

\* criterion = nn.CrossEntropyLoss(); optimizer = optim.SGD(..., lr=0.001)
Main_ConstructOptimizer ==
    /\ pc = "construct_optimizer"
    /\ optimizer' = OptimSGD(args)
    /\ twin' = [twin EXCEPT !.optimizer = OptimSGD([args EXCEPT !.lr = twin.lr])]
    /\ pc' = "call_train"
    /\ UNCHANGED <<args, data_dir, valid_dir, fs, error, model, grad,
                   train_loader, test_loader, loop, tst, logs, summary, hist, ld>>

\* train(model, train_loader, test_loader, args.epochs, criterion, optimizer, device)
Main_CallTrain ==
    /\ pc = "call_train"
    /\ loop' = [NoLoop EXCEPT !.epoch = 1]
    /\ pc' = "epoch_head"
    /\ UNCHANGED <<args, data_dir, valid_dir, fs, error, model, grad, optimizer, twin,
                   train_loader, test_loader, tst, logs, summary, hist, ld>>

\* ---- train() ------------------------------------------------------------------
\* for epoch in range(1, epochs + 1): model.train(); total_loss = 0;
\* enumerate(train_loader) starts a fresh iterator.  After the last epoch
\* control falls through to the call of test() that follows the loop.
Train_EpochHead ==
    /\ pc = "epoch_head"
    /\ IF loop.epoch <= args.epochs
       THEN /\ model' = [model EXCEPT !.training = TRUE]
            /\ \E order \in Shuffles(train_loader.n) :
                  loop' = [loop EXCEPT !.total_loss = 0, !.order = order, !.pos = 0,
                                       !.count = 0]
            /\ hist' = [hist EXCEPT !.epochSteps = 0,
                                    !.consumed = [s \in 1..train_loader.n |-> 0]]
            /\ pc' = "fetch"
       ELSE /\ pc' = "test_enter"
            /\ UNCHANGED <<model, loop, hist>>
    /\ UNCHANGED <<args, data_dir, valid_dir, fs, error, grad, optimizer, twin,
                   train_loader, test_loader, tst, logs, summary, ld>>

\* for batch_idx, (data, label) in enumerate(train_loader): the next batch, or
\* the end of the epoch.
Train_Fetch ==
    /\ pc = "fetch"
    /\ IF HasNext(loop.order, loop.pos, train_loader.batch_size)
       THEN LET data == NextBatch(loop.order, loop.pos, train_loader.batch_size)
            IN /\ loop' = [loop EXCEPT !.data = data, !.batch_idx = loop.count,
                                       !.count = loop.count + 1,
                                       !.pos = loop.pos + Len(data)]
               /\ hist' = [hist EXCEPT
                             !.ops = <<>>,
                             !.consumed = [s \in DOMAIN hist.consumed |->
                                 hist.consumed[s]
                                 + Cardinality({i \in 1..Len(data) : data[i] = s})]]
               /\ pc' = "zero_grad"
       ELSE /\ loop' = [loop EXCEPT !.epoch = loop.epoch + 1]
            /\ pc' = "epoch_head"
            /\ hist' = hist
    /\ UNCHANGED <<args, data_dir, valid_dir, fs, error, model, grad, optimizer, twin,
                   train_loader, test_loader, tst, logs, summary, ld>>

Train_ZeroGrad_skip ==
    /\ pc = "zero_grad"
    /\ hist' = [hist EXCEPT !.ops = Append(hist.ops, "zero_grad")]
    /\ pc' = "forward"
    /\ UNCHANGED <<args, data_dir, valid_dir, fs, error, model, grad, optimizer, twin,
                   train_loader, test_loader, loop, tst, logs, summary, ld>>

\* optimizer.zero_grad()
Train_ZeroGrad ==
    /\ pc = "zero_grad"
    /\ grad' = [val |-> 0, from |-> <<>>]
    /\ twin' = [twin EXCEPT !.grad = 0]
    /\ hist' = [hist EXCEPT !.ops = Append(hist.ops, "zero_grad")]
    /\ pc' = "forward"
    /\ UNCHANGED <<args, data_dir, valid_dir, fs, error, model, optimizer,
                   train_loader, test_loader, loop, tst, logs, summary, ld>>

\* y_pred = model(batch_x)
Train_Forward ==
    /\ pc = "forward"
    /\ loop' = [loop EXCEPT !.y_pred = Forward(model.params, loop.data)]
    /\ twin' = [twin EXCEPT !.y_pred = Forward(twin.params, loop.data)]
    /\ hist' = [hist EXCEPT !.ops = Append(hist.ops, "forward")]
    /\ pc' = "loss"
    /\ UNCHANGED <<args, data_dir, valid_dir, fs, error, model, grad, optimizer,
                   train_loader, test_loader, tst, logs, summary, ld>>

\* loss = criterion(y_pred, batch_y)
Train_Loss ==
    /\ pc = "loss"
    /\ LET batch_y == Targets(loop.data, model.output_dim)
       IN /\ loop' = [loop EXCEPT !.loss = Criterion(loop.y_pred, batch_y)]
          /\ twin' = [twin EXCEPT !.loss = Criterion(twin.y_pred, batch_y)]
    /\ hist' = [hist EXCEPT !.ops = Append(hist.ops, "loss")]
    /\ pc' = "backward"
    /\ UNCHANGED <<args, data_dir, valid_dir, fs, error, model, grad, optimizer,
                   train_loader, test_loader, tst, logs, summary, ld>>

\* loss.backward(): adds this batch's gradient to the .grad accumulators.
Train_Backward ==
    /\ pc = "backward"
    /\ grad' = [val |-> grad.val + loop.loss,
                from |-> Append(grad.from, <<loop.epoch, loop.batch_idx>>)]
    /\ twin' = [twin EXCEPT !.grad = twin.grad + twin.loss]
    /\ hist' = [hist EXCEPT !.ops = Append(hist.ops, "backward")]
    /\ pc' = "step"
    /\ UNCHANGED <<args, data_dir, valid_dir, fs, error, model, optimizer,
                   train_loader, test_loader, loop, tst, logs, summary, ld>>

\* optimizer.step()
Train_Step ==
    /\ pc = "step"
    /\ model' = [model EXCEPT !.params = SgdStep(model.params, grad.val, optimizer.lr)]
    /\ twin' = [twin EXCEPT !.params = SgdStep(twin.params, twin.grad, twin.optimizer.lr)]
    /\ hist' = [hist EXCEPT !.ops = Append(hist.ops, "step"),
                            !.stepFrom = grad.from,
                            !.gradSteps = hist.gradSteps + 1,
                            !.epochSteps = hist.epochSteps + 1]
    /\ pc' = "log"
    /\ UNCHANGED <<args, data_dir, valid_dir, fs, error, grad, optimizer,
                   train_loader, test_loader, loop, tst, logs, summary, ld>>

\* total_loss += loss.data.item(); if batch_idx % 20 == 0: logger.info(...);
\* total_loss = 0
Train_Log ==
    /\ pc = "log"
    /\ IF loop.batch_idx % LogInterval = 0
       THEN /\ logs' = logs \cup
                 {[epoch |-> loop.epoch,
                   batch_idx |-> loop.batch_idx,
                   processed |-> loop.batch_idx * Len(loop.data),
                   total |-> train_loader.n,
                   percent |-> [num |-> 100 * loop.batch_idx,
                                den |-> NumBatches(train_loader)],
                   loss |-> loop.loss,
                   before |-> loop.pos - Len(loop.data)]}
            /\ loop' = [loop EXCEPT !.total_loss = 0]
       ELSE /\ logs' = logs
            /\ loop' = [loop EXCEPT !.total_loss = loop.total_loss + loop.loss]
    /\ pc' = "fetch"
    /\ UNCHANGED <<args, data_dir, valid_dir, fs, error, model, grad, optimizer, twin,
                   train_loader, test_loader, tst, summary, hist, ld>>

\* ---- test() -------------------------------------------------------------------
Test_Enter_noEval ==
    /\ pc = "test_enter"
    /\ \E order \in Shuffles(test_loader.n) :
          tst' = [test_loss |-> 0, correct |-> 0, order |-> order, pos |-> 0,
                  scored |-> [s \in 1..test_loader.n |-> 0], no_grad |-> TRUE]
    /\ pc' = "test_batch"
    /\ UNCHANGED <<args, data_dir, valid_dir, fs, error, model, grad, optimizer, twin,
                   train_loader, test_loader, loop, logs, summary, hist, ld>>

\* model.eval(); test_loss = 0; correct = 0; with torch.no_grad(): the loop
\* over test_loader starts a fresh iterator.
Test_Enter ==
    /\ pc = "test_enter"
    /\ model' = [model EXCEPT !.training = FALSE]
    /\ \E order \in Shuffles(test_loader.n) :
          tst' = [test_loss |-> 0, correct |-> 0, order |-> order, pos |-> 0,
                  scored |-> [s \in 1..test_loader.n |-> 0], no_grad |-> TRUE]
    /\ pc' = "test_batch"
    /\ UNCHANGED <<args, data_dir, valid_dir, fs, error, grad, optimizer, twin,
                   train_loader, test_loader, loop, logs, summary, hist, ld>>

\* for data, target in test_loader: output = model(data); test_loss +=
\* criterion(output, target).item(); pred = output.max(1)[1]; correct +=
\* pred.eq(target.view_as(pred)).sum().item().  The predicted classes are any
\* class indices the model can emit.
Test_Batch ==
    /\ pc = "test_batch"
    /\ IF HasNext(tst.order, tst.pos, test_loader.batch_size)
       THEN LET data == NextBatch(tst.order, tst.pos, test_loader.batch_size)
                target == Targets(data, model.output_dim)
                output == Forward(model.params, data)
            IN \E pred \in [1..Len(data) -> 0..(model.output_dim - 1)] :
                  tst' = [tst EXCEPT
                            !.test_loss = tst.test_loss + Criterion(output, target),
                            !.correct = tst.correct + EqCount(pred, target),
                            !.pos = tst.pos + Len(data),
                            !.scored = [s \in DOMAIN tst.scored |->
                                tst.scored[s]
                                + Cardinality({i \in 1..Len(data) : data[i] = s})]]
               /\ pc' = pc
       ELSE /\ pc' = "test_summary"
            /\ tst' = tst
    /\ UNCHANGED <<args, data_dir, valid_dir, fs, error, model, grad, optimizer, twin,
                   train_loader, test_loader, loop, logs, summary, hist, ld>>

\* The with block ends; test_loss /= len(test_loader.dataset); logger.info(
\* average loss, correct, len(dataset), 100. * correct / len(dataset)).  test()
\* returns, and train() returns with it.
Test_Summary ==
    /\ pc = "test_summary"
    /\ tst' = [tst EXCEPT !.no_grad = FALSE]
    /\ summary' = Append(summary,
                     [avg_loss |-> [num |-> tst.test_loss, den |-> test_loader.n],
                      correct |-> tst.correct,
                      total |-> test_loader.n,
                      accuracy |-> [num |-> 100 * tst.correct, den |-> test_loader.n]])
    /\ hist' = [hist EXCEPT !.evalPasses = hist.evalPasses + 1]
    /\ pc' = "save_info_open"
    /\ UNCHANGED <<args, data_dir, valid_dir, fs, error, model, grad, optimizer, twin,
                   train_loader, test_loader, loop, logs, ld>>

\* ---- the save path ---------------------------------------------------------------
ModelInfo_default(a) == InfoFile(OutputDimDefault)

\* model_info = {'output_dim': args.output_dim}
ModelInfo(a) == InfoFile(a.output_dim)

\* model.cpu().state_dict()
StateDict(m) == ParamsFile(m.output_dim, m.params)

\* with open(model_info_path, 'wb') as f: creates or truncates the file.
Save_InfoOpen ==
    /\ pc = "save_info_open"
    /\ fs' = [fs EXCEPT !.info = TruncatedFile]
    /\ hist' = [hist EXCEPT !.written = hist.written \cup {"model_info.pth"}]
    /\ pc' = "save_info_write"
    /\ UNCHANGED <<args, data_dir, valid_dir, error, model, grad, optimizer, twin,
                   train_loader, test_loader, loop, tst, logs, summary, ld>>

\* torch.save(model_info, f)
Save_InfoWrite ==
    /\ pc = "save_info_write"
    /\ fs' = [fs EXCEPT !.info = ModelInfo(args)]
    /\ pc' = "save_params_open"
    /\ UNCHANGED <<args, data_dir, valid_dir, error, model, grad, optimizer, twin,
                   train_loader, test_loader, loop, tst, logs, summary, hist, ld>>

\* with open(model_path, 'wb') as f: creates or truncates the file.
Save_ParamsOpen ==
    /\ pc = "save_params_open"
    /\ fs' = [fs EXCEPT !.params = TruncatedFile]
    /\ hist' = [hist EXCEPT !.written = hist.written \cup {"model.pth"}]
    /\ pc' = "save_params_write"
    /\ UNCHANGED <<args, data_dir, valid_dir, error, model, grad, optimizer, twin,
                   train_loader, test_loader, loop, tst, logs, summary, ld>>

\* torch.save(model.cpu().state_dict(), f); the script ends.
Save_ParamsWrite ==
    /\ pc = "save_params_write"
    /\ fs' = [fs EXCEPT !.params = StateDict(model)]
    /\ pc' = "done"
    /\ UNCHANGED <<args, data_dir, valid_dir, error, model, grad, optimizer, twin,
                   train_loader, test_loader, loop, tst, logs, summary, hist, ld>>

SavePcs == {"save_info_open", "save_info_write", "save_params_open", "save_params_write"}

\* A persistence error (an unwritable directory, a full disk) or a killed
\* process: nothing is caught, the script aborts where it stands.
Save_Fail ==
    /\ pc \in SavePcs
    /\ pc' = "failed"
    /\ error' = "persistence"
    /\ UNCHANGED <<args, data_dir, valid_dir, fs, model, grad, optimizer, twin,
                   train_loader, test_loader, loop, tst, logs, summary, hist, ld>>

\* ---- model_fn --------------------------------------------------------------------
MainEnded == pc \in {"done", "failed"}

\* with open(model_info_path, 'rb') as f: model_info = torch.load(f)
ModelFn_LoadInfo ==
    /\ MainEnded
    /\ ld.pc = "idle"
    /\ IF fs.info.st = "written"
       THEN ld' = [ld EXCEPT !.pc = "construct", !.info = fs.info,
                             !.ops = Append(ld.ops, "load_info")]
       ELSE ld' = [ld EXCEPT !.pc = "error", !.error = "load"]
    /\ UNCHANGED <<args, data_dir, valid_dir, fs, pc, error, model, grad, optimizer, twin,
                   train_loader, test_loader, loop, tst, logs, summary, hist>>

\* model = Resnet(model_info['output_dim'])
ModelFn_Construct ==
    /\ ld.pc = "construct"
    /\ ld' = [ld EXCEPT !.pc = "load_state", !.model = Resnet(ld.info.output_dim),
                        !.ops = Append(ld.ops, "construct")]
    /\ UNCHANGED <<args, data_dir, valid_dir, fs, pc, error, model, grad, optimizer, twin,
                   train_loader, test_loader, loop, tst, logs, summary, hist>>

\* with open(model_path, 'rb') as f: model.load_state_dict(torch.load(f)): a
\* missing or empty file, or tensors of another shape, raise.
ModelFn_LoadState ==
    /\ ld.pc = "load_state"
    /\ IF fs.params.st = "written" /\ fs.params.output_dim = ld.model.output_dim
       THEN ld' = [ld EXCEPT !.pc = "eval", !.model.params = fs.params.params,
                             !.ops = Append(ld.ops, "load_state_dict")]
       ELSE ld' = [ld EXCEPT !.pc = "error", !.error = "load"]
    /\ UNCHANGED <<args, data_dir, valid_dir, fs, pc, error, model, grad, optimizer, twin,
                   train_loader, test_loader, loop, tst, logs, summary, hist>>

\* model.to(device).eval(); return model
ModelFn_Eval ==
    /\ ld.pc = "eval"
    /\ ld' = [ld EXCEPT !.pc = "returned", !.model.training = FALSE,
                        !.ops = Append(ld.ops, "eval")]
    /\ UNCHANGED <<args, data_dir, valid_dir, fs, pc, error, model, grad, optimizer, twin,
                   train_loader, test_loader, loop, tst, logs, summary, hist>>

\* ---- specification ---------------------------------------------------------------
Next ==
    \/ Main_GetLoaders
    \/ Main_ConstructModel
    \/ Main_ConstructOptimizer
    \/ Main_CallTrain
    \/ Train_EpochHead
    \/ Train_Fetch
    \/ Train_ZeroGrad
    \/ Train_Forward
    \/ Train_Loss
    \/ Train_Backward
    \/ Train_Step
    \/ Train_Log
    \/ Test_Enter
    \/ Test_Batch
    \/ Test_Summary
    \/ Save_InfoOpen
    \/ Save_InfoWrite
    \/ Save_ParamsOpen
    \/ Save_ParamsWrite
    \/ Save_Fail
    \/ ModelFn_LoadInfo
    \/ ModelFn_Construct
    \/ ModelFn_LoadState
    \/ ModelFn_Eval

Spec == Init /\ [][Next]_vars

SpecLong == InitLong /\ [][Next]_vars

\* ---- properties ------------------------------------------------------------------
IsPrefix(a, b) == Len(a) <= Len(b) /\ a = SubSeq(b, 1, Len(a))

InGradientStep == pc \in {"zero_grad", "forward", "loss", "backward", "step", "log"}
InEvaluation == pc \in {"test_batch", "test_summary"}
TrainReturned == pc \in SavePcs \cup {"done"} \/ (pc = "failed" /\ error = "persistence")
BatchesPerEpoch == CeilDiv(train_loader.n, args.batch_size)
BadDir(dir) == ~dir.exists \/ dir.n = 0

\* C1: train() runs the evaluation once after the final batch of each epoch: a
\* run of E epochs has made exactly E evaluation passes when train() returns,
\* and every gradient step of epoch k+1 comes after the evaluation of epoch k.
C1_EvalEveryEpoch ==
    /\ TrainReturned => hist.evalPasses = args.epochs
    /\ InGradientStep => hist.evalPasses = loop.epoch - 1

\* C2: whenever model_info.pth is present in the model directory, model.pth is
\* there too, both are completely written, and the output_dim model_info.pth
\* records is the output dimension of the parameters in model.pth.
C2_CompanionFiles ==
    fs.info.st # "absent" =>
        /\ fs.info.st = "written"
        /\ fs.params.st = "written"
        /\ fs.params.output_dim = fs.info.output_dim

\* C3: once the save path has completed, model_fn never fails: it reads the
\* metadata, builds a model of the saved output_dim, loads the parameters and
\* switches to inference mode, in that order, and returns a model with the
\* output dimension and the parameters of the model at the end of training.
C3_RoundTrip ==
    pc = "done" =>
        /\ ld.pc # "error"
        /\ IsPrefix(ld.ops, <<"load_info", "construct", "load_state_dict", "eval">>)
        /\ ld.pc \in {"construct", "load_state", "eval", "returned"} =>
              ld.info.output_dim = args.output_dim
        /\ ld.pc \in {"load_state", "eval", "returned"} =>
              ld.model.output_dim = args.output_dim
        /\ ld.pc = "returned" =>
              /\ ld.ops = <<"load_info", "construct", "load_state_dict", "eval">>
              /\ ld.model.output_dim = model.output_dim
              /\ ld.model.params = model.params
              /\ ~ld.model.training

C3_Witness ==
    /\ pc = "done"
    /\ ld.pc = "returned"
    /\ args.output_dim = OutputDimDefault + 2
    /\ hist.fs0 = EarlierRunDir(OutputDimDefault)
    /\ ld.model.output_dim = OutputDimDefault + 2
    /\ model.params # 0

\* C4: every epoch makes exactly ceil(N/B) gradient steps, only the last batch
\* may be smaller than B, every training sample is consumed exactly once per
\* epoch, and train() returns after exactly E * ceil(N/B) gradient steps.
C4_BatchesPerEpoch ==
    train_loader.built =>
        /\ \A s \in DOMAIN hist.consumed : hist.consumed[s] <= 1
        /\ InGradientStep =>
              Len(loop.data) = IF loop.batch_idx < BatchesPerEpoch - 1
                               THEN args.batch_size
                               ELSE train_loader.n - args.batch_size * (BatchesPerEpoch - 1)
        /\ (pc = "epoch_head" /\ loop.epoch > 1) =>
              /\ hist.epochSteps = BatchesPerEpoch
              /\ \A s \in DOMAIN hist.consumed : hist.consumed[s] = 1
              /\ hist.gradSteps = (loop.epoch - 1) * BatchesPerEpoch
        /\ TrainReturned => hist.gradSteps = args.epochs * BatchesPerEpoch

C4_Witness ==
    /\ pc = "done"
    /\ args.epochs = 2
    /\ train_loader.n = 3
    /\ args.batch_size = 2
    /\ hist.gradSteps = 4

\* C5: with the validation directory missing or empty, or the training
\* directory missing, the run fails with a dataset error in loader
\* construction: no loader, model or optimizer is ever built, no gradient step
\* is made and no artifact file is written.
C5_DatasetErrorFirst ==
    (BadDir(valid_dir) \/ ~data_dir.exists) =>
        /\ pc \in {"get_loaders", "failed"}
        /\ pc = "failed" => error = "dataset"
        /\ ~train_loader.built /\ ~test_loader.built
        /\ ~model.built /\ ~optimizer.built
        /\ hist.gradSteps = 0
        /\ hist.written = {} /\ fs = hist.fs0

C5_Witness ==
    /\ pc = "failed"
    /\ error = "dataset"
    /\ valid_dir = MissingDir
    /\ data_dir.exists /\ data_dir.n > 0
    /\ fs = EarlierRunDir(OutputDimDefault)

\* C6: every summary of test() reports a correct count between 0 and the
\* number of validation samples, each scored exactly once, an accuracy between
\* 0 and 100 percent, and an average loss that is not negative.
C6_SummaryRanges ==
    /\ pc = "test_batch" => \A s \in DOMAIN tst.scored : tst.scored[s] <= 1
    /\ pc = "test_batch" => tst.correct \in 0..tst.pos
    /\ pc = "test_summary" => \A s \in DOMAIN tst.scored : tst.scored[s] = 1
    /\ \A i \in 1..Len(summary) :
          LET s == summary[i]
          IN /\ s.total = test_loader.n
             /\ s.correct \in 0..s.total
             /\ s.accuracy.den > 0
             /\ 0 <= s.accuracy.num /\ s.accuracy.num <= 100 * s.accuracy.den
             /\ s.avg_loss.den > 0
             /\ s.avg_loss.num >= 0

C6_Witness ==
    /\ Len(summary) = 1
    /\ test_loader.n = 2
    /\ summary[1].correct = 1
    /\ summary[1].accuracy = [num |-> 100, den |-> 2]
    /\ summary[1].avg_loss.num > 0

\* C7: a gradient step runs clear gradients, forward, loss, backward, update in
\* that order; the update uses the gradient of its own batch's backward pass
\* and of no earlier batch.
StepOrder == <<"zero_grad", "forward", "loss", "backward", "step">>

C7_StepPhases ==
    InGradientStep =>
        /\ IsPrefix(hist.ops, StepOrder)
        /\ pc = "step" =>
              /\ hist.ops = SubSeq(StepOrder, 1, 4)
              /\ grad.from = << <<loop.epoch, loop.batch_idx>> >>
              /\ grad.val = loop.loss
        /\ pc = "log" =>
              /\ hist.ops = StepOrder
              /\ hist.stepFrom = << <<loop.epoch, loop.batch_idx>> >>

C7_Witness ==
    /\ pc = "log"
    /\ loop.epoch = 2
    /\ loop.batch_idx = 1
    /\ grad.val > 0
    /\ hist.gradSteps = 4

\* C8: a progress line is emitted exactly for the batches whose index is a
\* multiple of 20, and its 'samples processed' value is the number of training
\* samples consumed in the earlier batches of the epoch, index * batch size.
C8_ProgressLines ==
    /\ \A l \in logs :
          /\ l.batch_idx % LogInterval = 0
          /\ l.before = l.batch_idx * args.batch_size
          /\ l.processed = l.before
    /\ pc = "fetch" /\ loop.count > 0 =>
          (loop.batch_idx % LogInterval = 0
             <=> \E l \in logs : l.epoch = loop.epoch /\ l.batch_idx = loop.batch_idx)

\* C9: the model is in training mode during every gradient step and in
\* inference mode with gradient tracking disabled during every evaluation
\* batch, and the evaluation pass changes neither the parameters nor their
\* gradients.
ModesOK ==
    /\ InGradientStep => model.training /\ ~tst.no_grad
    /\ InEvaluation => ~model.training /\ tst.no_grad

C9_Modes ==
    [][/\ ModesOK'
       /\ (pc = "test_enter" \/ InEvaluation) =>
             model'.params = model.params /\ grad' = grad]_vars

C9_Witness ==
    /\ pc = "test_batch"
    /\ tst.pos > 0
    /\ hist.gradSteps > 0
    /\ ~model.training
    /\ model.params # 0

\* C10 as stated: --lr does not reach the optimizer, so the run and its twin
\* under another --lr make the same parameter updates, and the hardcoded
\* literal differs from the value declared for --lr.
C10_LiteralDiffers ==
    optimizer.built =>
        /\ optimizer.lr = SgdLr
        /\ twin.optimizer.lr = optimizer.lr
        /\ twin.grad = grad.val
        /\ twin.params = model.params
        /\ SgdLr # LrDefault

\* C10 as amended: --lr does not reach the optimizer, so the run and its twin
\* under another --lr make the same parameter updates; the hardcoded literal
\* is the very value declared as the default of --lr.
C10_LiteralIsDefault ==
    optimizer.built =>
        /\ twin.lr # args.lr
        /\ optimizer.lr = SgdLr
        /\ twin.optimizer.lr = optimizer.lr
        /\ twin.grad = grad.val
        /\ twin.params = model.params
        /\ SgdLr = LrDefault

C10_Witness ==
    /\ optimizer.built
    /\ args.lr # LrDefault
    /\ hist.gradSteps >= 2
    /\ model.params # 0
    /\ pc = "step"
    /\ grad.val > 0

====
